---- MODULE Spec2Model ----
(***************************************************************************)
(* Model of tg_contacts (src/cli.py): the phone normalizer normalize_phone *)
(* and the conversion run of main() (input checks, output sink, the        *)
(* per-contact loop with optional de-duplication, the summary counters).   *)
(*                                                                         *)
(* A Python str is a sequence of one-character strings; None is NoneVal.   *)
(***************************************************************************)
EXTENDS Integers, Sequences, FiniteSets, TLC

VARIABLES
    \* ---- one call of normalize_phone, and a second call on its result
    np_pc,          \* "idle" | "call" | "returned" | "again"
    np_phone,       \* the phone argument
    np_country,     \* the country argument
    np_out,         \* result of normalize_phone(np_phone, np_country)
    np_again,       \* result of normalize_phone(np_out.phone, np_country)
    \* ---- one run of main()
    pc,             \* position in main()
    input,          \* what args.input holds (see InputShapes)
    contacts,       \* data["contacts"]["list"]
    format,         \* args.format
    name_mode,      \* args.name_mode
    country,        \* args.country
    dedupe,         \* args.dedupe
    out,            \* the output file: "unopened" | "open" | "closed"
    sink,           \* what has been written to the output file, in order
    i,              \* number of contacts the loop has consumed
    seen_phones,
    total,
    written,
    dupes,
    normalized_00,
    normalized_country,
    exit_status

np_vars == <<np_pc, np_phone, np_country, np_out, np_again>>
opt_vars == <<input, contacts, format, name_mode, country, dedupe>>
run_vars == <<pc, out, sink, i, seen_phones, total, written, dupes,
              normalized_00, normalized_country, exit_status>>
vars == <<np_vars, opt_vars, run_vars>>

-----------------------------------------------------------------------------
(* Bounds of the model *)

\* longest list of contacts in the input document
MaxContacts == 3
\* most pieces (see Pieces) a phone argument starts with
MaxPieces == 4
\* most filler digits that follow the pieces
MaxFill == 8
\* most whitespace characters that end a phone argument
MaxPad == 1

-----------------------------------------------------------------------------
(* Python values *)

\* None (a one-element sequence no str is equal to)
NoneVal == <<"None">>
\* a key the contact object does not have
Absent == <<"Absent">>
\* a lone surrogate, which json.load accepts ("\ud800") and utf-8 cannot encode
LoneSurrogate == "ud800"

\* str.startswith
StartsWith(s, prefix) ==
    /\ Len(s) >= Len(prefix)
    /\ SubSeq(s, 1, Len(prefix)) = prefix

\* str.strip() removes whitespace: here the space and the tab
IsSpace(ch) == ch \in {" ", "\t"}

RECURSIVE LStrip(_)
LStrip(s) ==
    IF s # <<>> /\ IsSpace(Head(s)) THEN LStrip(Tail(s)) ELSE s

RECURSIVE RStrip(_)
RStrip(s) ==
    IF s # <<>> /\ IsSpace(s[Len(s)]) THEN RStrip(SubSeq(s, 1, Len(s) - 1)) ELSE s

\* a plausible slip: lstrip() in place of strip()
Strip_left_only(s) == LStrip(s)

\* str.strip
Strip(s) == LStrip(RStrip(s))

\* Python truthiness of the phone argument: None and "" are falsy
Falsy(phone) == phone = NoneVal \/ phone = <<>>

-----------------------------------------------------------------------------
(* Phone normalization *)

COUNTRY_CODES == [c \in {"KE"} |-> <<"2", "5", "4">>]

\* the length a national or subscriber number must reach for rules a and c
MinNationalLen == 9

\* a plausible slip: the "00" prefix dropped without the "+" put in its place
Rule00_no_plus(phone) ==
    IF StartsWith(phone, <<"0", "0">>)
    THEN [phone |-> SubSeq(phone, 3, Len(phone)), fired |-> TRUE]
    ELSE [phone |-> phone, fired |-> FALSE]

\* the "00" rule
Rule00(phone) ==
    IF StartsWith(phone, <<"0", "0">>)
    THEN [phone |-> <<"+">> \o SubSeq(phone, 3, Len(phone)), fired |-> TRUE]
    ELSE [phone |-> phone, fired |-> FALSE]

\* a plausible slip: rule a writes the calling code without its "+"
CountryRule_a_no_plus(phone, cc) ==
    IF StartsWith(phone, <<"0">>) /\ Len(phone) >= MinNationalLen
    THEN [phone |-> cc \o Tail(phone), fired |-> TRUE]
    ELSE IF StartsWith(phone, cc) /\ ~StartsWith(phone, <<"+">>)
    THEN [phone |-> <<"+">> \o phone, fired |-> TRUE]
    ELSE IF StartsWith(phone, <<"7">>) /\ Len(phone) >= MinNationalLen
    THEN [phone |-> <<"+">> \o cc \o phone, fired |-> TRUE]
    ELSE [phone |-> phone, fired |-> FALSE]

\* a plausible slip: rule a keeps the leading "0"
CountryRule_a_keeps_zero(phone, cc) ==
    IF StartsWith(phone, <<"0">>) /\ Len(phone) >= MinNationalLen
    THEN [phone |-> <<"+">> \o cc \o phone, fired |-> TRUE]
    ELSE IF StartsWith(phone, cc) /\ ~StartsWith(phone, <<"+">>)
    THEN [phone |-> <<"+">> \o phone, fired |-> TRUE]
    ELSE IF StartsWith(phone, <<"7">>) /\ Len(phone) >= MinNationalLen
    THEN [phone |-> <<"+">> \o cc \o phone, fired |-> TRUE]
    ELSE [phone |-> phone, fired |-> FALSE]

\* the country rules a, b, c, the first that matches
CountryRule(phone, cc) ==
    IF StartsWith(phone, <<"0">>) /\ Len(phone) >= MinNationalLen
    THEN [phone |-> <<"+">> \o cc \o Tail(phone), fired |-> TRUE]
    ELSE IF StartsWith(phone, cc) /\ ~StartsWith(phone, <<"+">>)
    THEN [phone |-> <<"+">> \o phone, fired |-> TRUE]
    ELSE IF StartsWith(phone, <<"7">>) /\ Len(phone) >= MinNationalLen
    THEN [phone |-> <<"+">> \o cc \o phone, fired |-> TRUE]
    ELSE [phone |-> phone, fired |-> FALSE]

normalize_phone(phone, cty) ==
    IF Falsy(phone)
    THEN [phone |-> phone, n00 |-> FALSE, ncty |-> FALSE]
    ELSE LET r00 == Rule00(Strip(phone))
             rc == IF cty \in DOMAIN COUNTRY_CODES
                   THEN CountryRule(r00.phone, COUNTRY_CODES[cty])
                   ELSE [phone |-> r00.phone, fired |-> FALSE]
         IN [phone |-> rc.phone, n00 |-> r00.fired, ncty |-> rc.fired]

-----------------------------------------------------------------------------
(* The phone arguments and country hints the normalizer is applied to *)

Pieces == {<<"0">>, <<"7">>, <<"+">>, <<" ">>, <<"\t">>, <<"2", "5", "4">>}

RECURSIVE Flatten(_)
Flatten(ps) == IF ps = <<>> THEN <<>> ELSE Head(ps) \o Flatten(Tail(ps))

Repeat(ch, n) == [k \in 1..n |-> ch]

PieceSeqs == UNION {[1..n -> Pieces] : n \in 0..MaxPieces}

PhoneArgs ==
    {NoneVal} \cup
    {Flatten(ps) \o Repeat("1", f) \o Repeat(" ", p) :
        ps \in PieceSeqs, f \in 0..MaxFill, p \in 0..MaxPad}

\* "None": no --country; "UG": a country the table does not hold
Countries == {"None", "KE", "UG"}

NoResult == [phone |-> <<>>, n00 |-> FALSE, ncty |-> FALSE]

-----------------------------------------------------------------------------
(* The normalizer on its own: one call, then a call on the returned phone *)

MainIdle ==
    /\ pc = "idle"
    /\ input = "ok"
    /\ contacts = <<>>
    /\ format = "csv"
    /\ name_mode = "both"
    /\ country = "None"
    /\ dedupe = "None"
    /\ out = "unopened"
    /\ sink = <<>>
    /\ i = 0
    /\ seen_phones = {}
    /\ total = 0
    /\ written = 0
    /\ dupes = 0
    /\ normalized_00 = 0
    /\ normalized_country = 0
    /\ exit_status = 0

InitNorm ==
    /\ np_pc = "call"
    /\ np_phone \in PhoneArgs
    /\ np_country \in Countries
    /\ np_out = NoResult
    /\ np_again = NoResult
    /\ MainIdle

Normalize ==
    /\ np_pc = "call"
    /\ np_out' = normalize_phone(np_phone, np_country)
    /\ np_pc' = "returned"
    /\ UNCHANGED <<np_phone, np_country, np_again, opt_vars, run_vars>>

ReNormalize ==
    /\ np_pc = "returned"
    /\ np_again' = normalize_phone(np_out.phone, np_country)
    /\ np_pc' = "again"
    /\ UNCHANGED <<np_phone, np_country, np_out, opt_vars, run_vars>>

NextNorm == Normalize \/ ReNormalize

SpecNorm == InitNorm /\ [][NextNorm]_vars

-----------------------------------------------------------------------------
(* The run of main() *)

\* what the file named by --input holds
InputShapes ==
    {"missing",               \* no such file
     "invalid_json",          \* not JSON
     "not_object",            \* JSON, but the top level is a list, string, number
     "no_contacts",           \* an object without "contacts"
     "contacts_not_object",   \* "contacts" is a list, string, number or null
     "no_list",               \* "contacts" is an object without "list"
     "ok"}                    \* data["contacts"]["list"] is a list of objects

\* first_name and last_name of a contact: a name and no "last_name" key; a
\* first name that is a lone surrogate
NamePairs ==
    { << <<"A">>, Absent >>,
      << <<LoneSurrogate>>, <<"B">> >> }

RawPhones ==
    { Absent,
      <<>>,
      <<"0", "7", "1", "2", "3", "4", "5", "6", "7", "8">>,
      <<"7", "1", "2", "3", "4", "5", "6", "7", "8">>,
      <<"0", "0", "2", "5", "4", "7", "1", "2", "3", "4", "5", "6", "7", "8">> }

RawContacts ==
    { [first_name |-> n[1], last_name |-> n[2], phone_number |-> p] :
        n \in NamePairs, p \in RawPhones }

ContactLists == UNION {[1..n -> RawContacts] : n \in 0..MaxContacts}

NormIdle ==
    /\ np_pc = "idle"
    /\ np_phone = <<>>
    /\ np_country = "None"
    /\ np_out = NoResult
    /\ np_again = NoResult

Init ==
    /\ NormIdle
    /\ pc = "start"
    /\ input \in InputShapes
    /\ contacts \in (IF input = "ok" THEN ContactLists ELSE {<<>>})
    /\ format \in {"csv", "vcf"}
    /\ name_mode \in {"first", "last", "both"}
    /\ country \in {"None", "KE"}
    /\ dedupe \in {"None", "phone"}
    /\ out = "unopened"
    /\ sink = <<>>
    /\ i = 0
    /\ seen_phones = {}
    /\ total = 0
    /\ written = 0
    /\ dupes = 0
    /\ normalized_00 = 0
    /\ normalized_country = 0
    /\ exit_status = 0

\* an unhandled exception, or sys.exit(1): the process ends with status 1
Die(how) ==
    /\ pc' = how
    /\ exit_status' = 1

\* os.path.exists(args.input)
CheckInput ==
    /\ pc = "start"
    /\ IF input = "missing"
       THEN Die("fatal")
       ELSE pc' = "load" /\ UNCHANGED exit_status
    /\ UNCHANGED <<np_vars, opt_vars, out, sink, i, seen_phones, total,
                   written, dupes, normalized_00, normalized_country>>

\* json.load(f): JSONDecodeError is not handled
LoadJson ==
    /\ pc = "load"
    /\ IF input = "invalid_json"
       THEN Die("crashed")
       ELSE pc' = "extract" /\ UNCHANGED exit_status
    /\ UNCHANGED <<np_vars, opt_vars, out, sink, i, seen_phones, total,
                   written, dupes, normalized_00, normalized_country>>

\* a plausible slip: a missing "list" taken for an empty list
StructureError_list_optional(shape) ==
    CASE shape \in {"no_contacts"} -> "KeyError"
      [] shape \in {"not_object", "contacts_not_object"} -> "TypeError"
      [] OTHER -> "none"

\* what data["contacts"]["list"] raises
StructureError(shape) ==
    CASE shape \in {"no_contacts", "no_list"} -> "KeyError"
      [] shape \in {"not_object", "contacts_not_object"} -> "TypeError"
      [] OTHER -> "none"

\* try: contacts = data["contacts"]["list"]  except KeyError: sys.exit(1)
ExtractContacts ==
    /\ pc = "extract"
    /\ CASE StructureError(input) = "KeyError" -> Die("fatal")
         [] StructureError(input) = "TypeError" -> Die("crashed")
         [] OTHER -> pc' = "setup" /\ UNCHANGED exit_status
    /\ UNCHANGED <<np_vars, opt_vars, out, sink, i, seen_phones, total,
                   written, dupes, normalized_00, normalized_country>>

Str(token) == <<token>>

\* a plausible slip: the header row left out
HeaderRecords_none(fmt, mode) == <<>>

\* the rows written when the file is opened: the CSV header
HeaderRecords(fmt, mode) ==
    IF fmt = "csv"
    THEN << [kind |-> "header", idx |-> 0,
             fields |-> (IF mode \in {"first", "both"} THEN <<Str("First Name")>> ELSE <<>>)
                        \o (IF mode \in {"last", "both"} THEN <<Str("Last Name")>> ELSE <<>>)
                        \o <<Str("Phone")>>] >>
    ELSE <<>>

\* the counters are set, the output file is opened, the CSV header written
OpenOutput ==
    /\ pc = "setup"
    /\ seen_phones' = {}
    /\ total' = Len(contacts)
    /\ written' = 0
    /\ dupes' = 0
    /\ normalized_00' = 0
    /\ normalized_country' = 0
    /\ out' = "open"
    /\ sink' = HeaderRecords(format, name_mode)
    /\ pc' = "loop"
    /\ UNCHANGED <<np_vars, opt_vars, i, exit_status>>

\* a plausible slip: a missing key read as None
Get_default_none(value) == IF value = Absent THEN NoneVal ELSE value

\* c.get(key, "")
Get(value) == IF value = Absent THEN <<>> ELSE value

\* a plausible slip: every contact is de-duplicated, whatever --dedupe says
DedupeEnabled_always(opt) == TRUE

\* args.dedupe == "phone"
DedupeEnabled(opt) == opt = "phone"

\* a plausible slip: the membership test never finds the phone
IsDuplicate_never(phone, seen) == FALSE

\* phone in seen_phones
IsDuplicate(phone, seen) == phone \in seen

\* the CSV row of a contact
CsvRow(first, last, phone, mode) ==
    (IF mode \in {"first", "both"} THEN <<first>> ELSE <<>>)
    \o (IF mode \in {"last", "both"} THEN <<last>> ELSE <<>>)
    \o <<phone>>

\* what a contact's vCard holds: the last and first name of the N: line, the
\* FN: line (strip() is applied to the whole line, "FN:" included, so it takes
\* off the space after an empty last name, not the one before it), the phone
VcfCard(first, last, phone) ==
    <<last, first, Strip(<<"FN:">> \o first \o <<" ">> \o last), phone>>

\* the text cannot be encoded as utf-8, so the write raises UnicodeEncodeError
Unencodable(text) == \E k \in 1..Len(text) : text[k] = LoneSurrogate

\* the write of this contact raises: for CSV the row, for VCF the N: line
WriteRaises(fmt, first, last, phone, mode) ==
    IF fmt = "csv"
    THEN \E k \in 1..Len(CsvRow(first, last, phone, mode)) :
            Unencodable(CsvRow(first, last, phone, mode)[k])
    ELSE Unencodable(last) \/ Unencodable(first)

\* what reached the file before the write raised: nothing of a CSV row,
\* the lines BEGIN:VCARD and VERSION:3.0 of a vCard
Fragment(fmt, idx) ==
    IF fmt = "csv"
    THEN <<>>
    ELSE << [kind |-> "partial", idx |-> idx,
             fields |-> <<Str("BEGIN:VCARD"), Str("VERSION:3.0")>>] >>

\* the record of a written contact
Record(fmt, idx, first, last, phone, mode) ==
    IF fmt = "csv"
    THEN [kind |-> "row", idx |-> idx, fields |-> CsvRow(first, last, phone, mode)]
    ELSE [kind |-> "card", idx |-> idx, fields |-> VcfCard(first, last, phone)]

\* a plausible slip: the record is put before what was written
Emit_prepend(records, rec) == <<rec>> \o records

\* writer.writerow(row) / out.write(...): the record goes after what was written
Emit(records, rec) == Append(records, rec)

\* one iteration of  for i, c in enumerate(contacts, 1)
ProcessContact ==
    /\ pc = "loop"
    /\ i < Len(contacts)
    /\ LET idx == i + 1
           c == contacts[idx]
           first == Get(c.first_name)
           last == Get(c.last_name)
           phone_raw == Get(c.phone_number)
           np == normalize_phone(phone_raw, country)
       IN /\ normalized_00' = normalized_00 + (IF np.n00 THEN 1 ELSE 0)
          /\ normalized_country' = normalized_country + (IF np.ncty THEN 1 ELSE 0)
          /\ IF DedupeEnabled(dedupe) /\ IsDuplicate(np.phone, seen_phones)
             THEN /\ dupes' = dupes + 1
                  /\ i' = idx
                  /\ UNCHANGED <<pc, exit_status, sink, seen_phones, written>>
             ELSE /\ seen_phones' = IF DedupeEnabled(dedupe)
                                    THEN seen_phones \cup {np.phone}
                                    ELSE seen_phones
                  /\ IF WriteRaises(format, first, last, np.phone, name_mode)
                     THEN /\ Die("crashed")
                          /\ sink' = sink \o Fragment(format, idx)
                          /\ UNCHANGED <<i, written, dupes>>
                     ELSE /\ sink' = Emit(sink, Record(format, idx, first, last,
                                                       np.phone, name_mode))
                          /\ written' = written + 1
                          /\ i' = idx
                          /\ UNCHANGED <<pc, exit_status, dupes>>
    /\ UNCHANGED <<np_vars, opt_vars, out, total>>

\* out.close(), then the summary
CloseOutput ==
    /\ pc = "loop"
    /\ i = Len(contacts)
    /\ out' = "closed"
    /\ pc' = "done"
    /\ UNCHANGED <<np_vars, opt_vars, sink, i, seen_phones, total, written,
                   dupes, normalized_00, normalized_country, exit_status>>

Next ==
    \/ CheckInput
    \/ LoadJson
    \/ ExtractContacts
    \/ OpenOutput
    \/ ProcessContact
    \/ CloseOutput

Spec == Init /\ [][Next]_vars

-----------------------------------------------------------------------------
(* Vocabulary of the properties *)

\* the normalized phone of contact number idx: what normalize_phone returns for it
NormOf(idx) ==
    normalize_phone(
        IF contacts[idx].phone_number = Absent THEN <<>> ELSE contacts[idx].phone_number,
        country).phone

\* a record of a written contact (not the header, not a fragment)
IsContactRecord(r) == r.kind \in {"row", "card"}

IsComplete(r) == r.kind # "partial"

\* the records of the sink, without the fragment a failed write leaves
Records == SelectSeq(sink, IsComplete)

Terminated == pc \in {"done", "fatal", "crashed"}

\* the string without its leading and trailing whitespace, by positions
Trimmed(s) ==
    LET solid == {k \in 1..Len(s) : ~IsSpace(s[k])}
        lo == CHOOSE k \in solid : \A m \in solid : k <= m
        hi == CHOOSE k \in solid : \A m \in solid : k >= m
    IN IF solid = {} THEN <<>> ELSE SubSeq(s, lo, hi)

\* one of the rules a, b, c of the country with calling code cc matches s
RuleMatches(s, cc) ==
    \/ StartsWith(s, <<"0">>) /\ Len(s) >= 9
    \/ StartsWith(s, cc) /\ ~StartsWith(s, <<"+">>)
    \/ StartsWith(s, <<"7">>) /\ Len(s) >= 9

NoCountryRuleApplies(s, cty) ==
    \/ cty \notin DOMAIN COUNTRY_CODES
    \/ ~RuleMatches(s, COUNTRY_CODES[cty])

Plain(s) == [phone |-> s, n00 |-> FALSE, ncty |-> FALSE]

IsDigits(s) ==
    \A k \in 1..Len(s) : s[k] \in {"0", "1", "2", "3", "4", "5", "6", "7", "8", "9"}

Returned == np_pc \in {"returned", "again"}

KE_cc == <<"2", "5", "4">>

-----------------------------------------------------------------------------
(* C1 *)

\* C1: a run with dedupe=phone that completes ends with written + duplicates
\* equal to the number of input contacts, and no two written contacts have the
\* same normalized phone.
C1_DedupeAccounting ==
    (pc = "done" /\ dedupe = "phone") =>
        /\ total = Len(contacts)
        /\ written + dupes = total
        /\ written = Cardinality({k \in 1..Len(sink) : IsContactRecord(sink[k])})
        /\ \A a, b \in 1..Len(sink) :
              (a # b /\ IsContactRecord(sink[a]) /\ IsContactRecord(sink[b]))
                  => NormOf(sink[a].idx) # NormOf(sink[b].idx)

\* two contacts written one way and another ("0712..." and "712...") have the
\* same normalized phone under KE: one is dropped, a third contact is written
C1_Witness ==
    /\ pc = "done"
    /\ dedupe = "phone"
    /\ country = "KE"
    /\ Len(contacts) = 3
    /\ contacts[1].phone_number # contacts[2].phone_number
    /\ NormOf(1) = NormOf(2)
    /\ dupes = 1
    /\ written = 2

-----------------------------------------------------------------------------
(* C2 *)

\* C2: normalizing the phone a call returned, with the same country, returns
\* that phone again with both flags false.
C2_Idempotent ==
    np_pc = "again" => np_again = Plain(np_out.phone)

\* the first call fired country rule a
C2_Witness ==
    /\ np_pc = "again"
    /\ np_country = "KE"
    /\ StartsWith(np_phone, <<"0", "7">>)
    /\ np_out.ncty
    /\ ~np_out.n00

-----------------------------------------------------------------------------
(* C3 *)

\* C3 as stated: a phone that does not start with "00" and that no country rule
\* matches is returned character for character, with both flags false.
C3_UnchangedVerbatim ==
    (/\ Returned
     /\ ~StartsWith(np_phone, <<"0", "0">>)
     /\ NoCountryRuleApplies(np_phone, np_country))
        => np_out = Plain(np_phone)

\* C3 as amended: a phone whose trimmed form does not start with "00" and is
\* matched by no country rule is returned trimmed (None and "" as they are),
\* with both flags false.
C3_UnchangedTrimmed ==
    (/\ Returned
     /\ ~StartsWith(Trimmed(np_phone), <<"0", "0">>)
     /\ NoCountryRuleApplies(Trimmed(np_phone), np_country))
        => np_out = Plain(Trimmed(np_phone))

\* whitespace on both sides of a phone no rule touches
C3_Witness ==
    /\ Returned
    /\ np_country = "KE"
    /\ Len(np_phone) >= 3
    /\ IsSpace(np_phone[1])
    /\ IsSpace(np_phone[Len(np_phone)])
    /\ Trimmed(np_phone) # <<>>
    /\ ~StartsWith(Trimmed(np_phone), <<"0", "0">>)
    /\ NoCountryRuleApplies(Trimmed(np_phone), np_country)

-----------------------------------------------------------------------------
(* C4 *)

\* C4 as stated: some phone starting with "00" and some country of the table
\* make one call fire the "00" rule and a country rule.
\* (Stated of the call about to be made: some arguments it can be given do.)
C4_BothFlagsPossible ==
    np_pc = "call" =>
        \E p \in PhoneArgs, c \in DOMAIN COUNTRY_CODES :
            /\ StartsWith(p, <<"0", "0">>)
            /\ normalize_phone(p, c).n00
            /\ normalize_phone(p, c).ncty

\* C4 as amended: no call returns both flags true.
C4_NeverBothFlags ==
    Returned => ~(np_out.n00 /\ np_out.ncty)

\* the "00" rule fired on a phone whose rest ("00" taken off) a rule of KE matches
C4_Witness ==
    /\ Returned
    /\ np_country = "KE"
    /\ StartsWith(np_phone, <<"0", "0">>)
    /\ RuleMatches(SubSeq(Trimmed(np_phone), 3, Len(Trimmed(np_phone))), KE_cc)
    /\ np_out.n00

-----------------------------------------------------------------------------
(* C5 *)

\* C5: under KE, for a subscriber number s of digits that starts with "7" and
\* has at least 9 of them, "0"+s, "254"+s and s each normalize to "+254"+s with
\* applied00 false and appliedCountry true.
C5_ThreeForms ==
    (Returned /\ np_country = "KE") =>
        \A s \in {np_phone, SubSeq(np_phone, 2, Len(np_phone)),
                   SubSeq(np_phone, 4, Len(np_phone))} :
            (/\ IsDigits(s)
             /\ StartsWith(s, <<"7">>)
             /\ Len(s) >= 9
             /\ np_phone \in {s, <<"0">> \o s, KE_cc \o s})
                => np_out = [phone |-> <<"+">> \o KE_cc \o s, n00 |-> FALSE, ncty |-> TRUE]

\* the national form "0"+s
C5_Witness ==
    /\ Returned
    /\ np_country = "KE"
    /\ IsDigits(np_phone)
    /\ StartsWith(np_phone, <<"0", "7">>)
    /\ Len(np_phone) >= 10
    /\ np_out.ncty

-----------------------------------------------------------------------------
(* C6 *)

\* C6: no run ends with the output file open and not closed, and a run that
\* ends on a precondition failure never opened it.
C6_SinkReleased ==
    /\ Terminated => out # "open"
    /\ pc = "fatal" => out = "unopened"

-----------------------------------------------------------------------------
(* C7 *)

LacksStructure ==
    input \in {"not_object", "no_contacts", "contacts_not_object", "no_list"}

\* C7: with a JSON document that lacks contacts.list the loop never runs, the
\* output file is never opened, the step that follows the load ends the run,
\* with status 1; and the output file is open only after the structure check
\* has passed.
C7_StructureCheckedFirst ==
    /\ [](LacksStructure =>
            /\ pc \in {"start", "load", "extract", "fatal", "crashed"}
            /\ out = "unopened"
            /\ sink = <<>>
            /\ i = 0
            /\ Terminated => exit_status = 1)
    /\ [](out # "unopened" => (input = "ok" /\ pc \in {"loop", "done", "crashed"}))
    /\ [][(LacksStructure /\ pc = "extract") =>
            (pc' \in {"fatal", "crashed"} /\ exit_status' = 1 /\ out' = "unopened")]_vars

\* "contacts" without "list": the run has ended in the fatal error
C7_Witness ==
    /\ input = "no_list"
    /\ pc = "fatal"
    /\ exit_status = 1
    /\ out = "unopened"

-----------------------------------------------------------------------------
(* C8 *)

\* C8: without de-duplication the set of seen phones stays empty and nothing is
\* counted as a duplicate; a run that completes has written every contact.
C8_NoDedupe ==
    dedupe # "phone" =>
        /\ seen_phones = {}
        /\ dupes = 0
        /\ pc = "done" => (total = Len(contacts) /\ written = total)

\* two contacts with the same normalized phone, both written
C8_Witness ==
    /\ pc = "done"
    /\ dedupe # "phone"
    /\ Len(contacts) >= 2
    /\ NormOf(1) = NormOf(2)
    /\ written = Len(contacts)

-----------------------------------------------------------------------------
(* C9 *)

\* C9: at every point the sink holds, for CSV, one header row before any data
\* row, then the records of written contacts in strictly increasing input
\* index, each contact at most once; with dedupe=phone the contact written for
\* a normalized phone is the first of the input with that normalized phone.
\* (A failed write may leave a fragment, last in the sink of a crashed run.)
C9_EmissionOrder ==
    /\ \A k \in 1..Len(sink) :
          sink[k].kind = "partial" => (k = Len(sink) /\ pc = "crashed")
    /\ (format = "csv" /\ out # "unopened") =>
          (Len(Records) >= 1 /\ Records[1].kind = "header")
    /\ \A k \in 1..Len(Records) :
          Records[k].kind = "header" => (k = 1 /\ format = "csv")
    /\ \A k \in 1..Len(Records) :
          IsContactRecord(Records[k]) => Records[k].idx \in 1..i
    /\ \A a, b \in 1..Len(Records) :
          (a < b /\ IsContactRecord(Records[a]) /\ IsContactRecord(Records[b]))
              => Records[a].idx < Records[b].idx
    /\ dedupe = "phone" =>
          \A k \in 1..Len(Records) : \A j \in 1..Len(contacts) :
              (IsContactRecord(Records[k]) /\ NormOf(j) = NormOf(Records[k].idx))
                  => Records[k].idx <= j

\* CSV with de-duplication: header, contact 1, contact 3 (contact 2 dropped)
C9_Witness ==
    /\ pc = "done"
    /\ format = "csv"
    /\ dedupe = "phone"
    /\ Len(sink) = 3
    /\ sink[1].kind = "header"
    /\ sink[2].idx = 1
    /\ sink[3].idx = 3
    /\ dupes = 1

-----------------------------------------------------------------------------
(* C10 *)

HasNoPhone(j) == contacts[j].phone_number \in {Absent, <<>>}

\* C10: with dedupe=phone the contacts without a phone (absent or "") share
\* the key "": only the first of them in input order can be written, with the
\* phone "", and every later one is counted as a duplicate.
C10_NoPhoneDeduped ==
    dedupe = "phone" =>
        /\ \A k \in 1..Len(sink) :
              (IsContactRecord(sink[k]) /\ HasNoPhone(sink[k].idx)) =>
                  /\ \A j \in 1..(sink[k].idx - 1) : ~HasNoPhone(j)
                  /\ sink[k].fields[Len(sink[k].fields)] = <<>>
        /\ (pc = "loop" /\ \E j \in 1..i : HasNoPhone(j)) => <<>> \in seen_phones
        /\ (pc \in {"loop", "done"} /\ \E j \in 1..i : HasNoPhone(j)) =>
              dupes >= Cardinality({j \in 1..i : HasNoPhone(j)}) - 1

\* a contact without the key and one with "", of different names: one written
C10_Witness ==
    /\ pc = "done"
    /\ dedupe = "phone"
    /\ Len(contacts) = 2
    /\ contacts[1].phone_number = Absent
    /\ contacts[2].phone_number = <<>>
    /\ contacts[1].first_name # contacts[2].first_name
    /\ written = 1
    /\ dupes = 1

====
